---- MODULE Spec2Model ----
(***************************************************************************)
(* Model of Pdf_to_Excel.py: the remittance-advice extractor.              *)
(*                                                                         *)
(* Text is a sequence of tokens (one token per field group, "nl" for a     *)
(* line break, "sp" for extra white space).  Amounts are IEEE-754 binary64 *)
(* values, as pandas.to_numeric and float() produce them, kept exactly as  *)
(* sign and magnitude in units of 2^-60 on four 20-bit limbs.              *)
(***************************************************************************)
EXTENDS Integers, Sequences, FiniteSets, TLC

(***************************************************************************)
(* Binary64 arithmetic.  Every double met here is a multiple of 2^-60      *)
(* below 2^20: a cent amount c/100 >= 0.01 has an ulp of at least 2^-59,   *)
(* and sums and differences of such values are multiples of 2^-59 too.     *)
(* A magnitude is <<l1, l2, l3, l4>>, least significant limb first, of     *)
(* value (l1 + l2*2^20 + l3*2^40 + l4*2^60) * 2^-60.                       *)
(***************************************************************************)
\* Python evaluates an expression once and binds the value: With(e, LAMBDA v : b)
\* is b with v bound to the value of e.
With(e, Body(_)) == CHOOSE r \in {Body(v) : v \in {e}} : TRUE

\* The least element of a non-empty set of integers.
Least(S) == CHOOSE i \in S : \A j \in S : i <= j

MantBits == 53
LimbBits == 20
Base == 2^LimbBits
Limbs == 1..4
ZeroMag == <<0, 0, 0, 0>>

\* Length in bits of a limb value 0 <= x < Base.
LimbLen(x) == IF x = 0 THEN 0 ELSE CHOOSE k \in 1..LimbBits : 2^(k-1) <= x /\ x < 2^k

\* Length in bits of a magnitude (0 for zero).
BitLen(m) ==
  IF m = ZeroMag THEN 0
  ELSE LET top == CHOOSE i \in Limbs : m[i] # 0 /\ \A j \in Limbs : j > i => m[j] = 0
       IN LimbBits * (top - 1) + LimbLen(m[top])

\* a < b on magnitudes.
MagLess(a, b) ==
  \E i \in Limbs : a[i] < b[i] /\ \A j \in Limbs : j > i => a[j] = b[j]

\* a + b on magnitudes (the sum stays below 2^20).
AddMag(a, b) ==
  LET carry[i \in 0..4] == IF i = 0 THEN 0 ELSE (a[i] + b[i] + carry[i-1]) \div Base
  IN [i \in Limbs |-> (a[i] + b[i] + carry[i-1]) % Base]

\* a - b on magnitudes, for a >= b.
SubMag(a, b) ==
  LET borrow[i \in 0..4] ==
        IF i = 0 THEN 0 ELSE IF a[i] - b[i] - borrow[i-1] < 0 THEN 1 ELSE 0
  IN [i \in Limbs |-> (a[i] - b[i] - borrow[i-1] + Base) % Base]

\* The magnitude 2^d * 2^-60.
Pow2Mag(d) == [i \in Limbs |-> IF d \div LimbBits = i - 1 THEN 2^(d % LimbBits) ELSE 0]

\* m with its d low bits cleared.
TruncLow(m, d) ==
  [i \in Limbs |->
     IF LimbBits * i <= d THEN 0
     ELSE IF LimbBits * (i - 1) >= d THEN m[i]
     ELSE m[i] - (m[i] % 2^(d - LimbBits * (i - 1)))]

\* Bit number p (from 1, the lowest) of m.
BitAt(m, p) == (m[((p - 1) \div LimbBits) + 1] \div 2^((p - 1) % LimbBits)) % 2

\* Round to nearest, ties to even, to MantBits significant bits; sticky says
\* that the exact value lies strictly above m (bits below 2^-60 are set).
RoundMag(exact, sticky) ==
  With(exact, LAMBDA m :
  With(BitLen(m) - MantBits, LAMBDA d :
    IF d <= 0 THEN m
    ELSE With(TruncLow(m, d), LAMBDA kept :
         With(SubMag(m, kept), LAMBDA low :
         With(Pow2Mag(d - 1), LAMBDA half :
           LET up == \/ MagLess(half, low)
                     \/ low = half /\ (sticky \/ BitAt(m, d + 1) = 1)
           IN IF up THEN AddMag(kept, Pow2Mag(d)) ELSE kept)))))

\* The double nearest to c/100, c >= 0 cents: long division in base 2^20.
FromCents(c) ==
  LET rem[k \in 0..3] == IF k = 0 THEN c % 100 ELSE (rem[k-1] * Base) % 100
      exact == [i \in Limbs |->
                  IF i = 4 THEN c \div 100 ELSE (rem[3 - i] * Base) \div 100]
  IN RoundMag(exact, rem[3] # 0)

MkFloat(neg, mag) == With(mag, LAMBDA m : [neg |-> neg /\ m # ZeroMag, mag |-> m])

\* x + y in binary64: the exact sum, rounded once.
FAdd(a, b) ==
  With(a, LAMBDA x : With(b, LAMBDA y :
    IF x.neg = y.neg THEN MkFloat(x.neg, RoundMag(AddMag(x.mag, y.mag), FALSE))
    ELSE IF MagLess(x.mag, y.mag)
         THEN MkFloat(y.neg, RoundMag(SubMag(y.mag, x.mag), FALSE))
         ELSE MkFloat(x.neg, RoundMag(SubMag(x.mag, y.mag), FALSE))))

FNeg(a) == With(a, LAMBDA x : MkFloat(~x.neg, x.mag))
FSub(a, b) == FAdd(a, FNeg(b))
FAbs(a) == With(a, LAMBDA x : MkFloat(FALSE, x.mag))
\* x < y and x >= y on doubles.
FLess(a, b) ==
  With(a, LAMBDA x : With(b, LAMBDA y :
    IF x.neg # y.neg THEN x.neg
    ELSE IF x.neg THEN MagLess(y.mag, x.mag) ELSE MagLess(x.mag, y.mag)))
FGeq(x, y) == ~FLess(x, y)


(***************************************************************************)
(* Text.  A token stands for one field group of the remittance layout:     *)
(*   inv     "Invoice #: <num>"                                            *)
(*   paid    "Paid Invoice Amount: <amt> USD"                              *)
(*   date    "Invoice Date: <date>"                                        *)
(*   credit  "Credit Amount"              usdamt  "<amt> USD"              *)
(*   payamt  "Payment Amount: <amt>"      paynum  "Payment Number: <num>"  *)
(*   word    any other text     sp  extra white space     nl  line break   *)
(* Tokens on a line are separated by one blank.  A <num> is a sequence of  *)
(* runs: an alphanumeric run or a single punctuation character.  An <amt>  *)
(* is a decimal: sign, whole part, nfrac fractional digits of value frac,  *)
(* and whether it holds thousands separators.  A <date> is its groups of   *)
(* digits between dashes, as the number of digits of each.                 *)
(***************************************************************************)
AlNum == {"A", "B", "1", "2", "PN", "PAYMENT", "ADJUSTMENT"}
Hyphen == "-"
EnDash == "en-dash"
EmDash == "em-dash"

NoNum == <<>>
NoAmt == [neg |-> FALSE, whole |-> 0, frac |-> 0, nfrac |-> 0, comma |-> FALSE]
NoDate == [id |-> "", groups |-> <<>>]
Amt(neg, whole, frac, nfrac, comma) ==
  [neg |-> neg, whole |-> whole, frac |-> frac, nfrac |-> nfrac, comma |-> comma]
\* The text of c cents (c an integer) with two fractional digits.
Dec2(c) == IF c < 0 THEN Amt(TRUE, (-c) \div 100, (-c) % 100, 2, FALSE)
           ELSE Amt(FALSE, c \div 100, c % 100, 2, FALSE)
IsoDate(id) == [id |-> id, groups |-> <<4, 2, 2>>]

Tok(k, num, amt, date) == [k |-> k, num |-> num, amt |-> amt, date |-> date]
InvTok(num) == Tok("inv", num, NoAmt, NoDate)
PaidTok(amt) == Tok("paid", NoNum, amt, NoDate)
DateTok(date) == Tok("date", NoNum, NoAmt, date)
CreditTok == Tok("credit", NoNum, NoAmt, NoDate)
UsdTok(amt) == Tok("usdamt", NoNum, amt, NoDate)
PayAmtTok(amt) == Tok("payamt", NoNum, amt, NoDate)
PayNumTok(num) == Tok("paynum", num, NoAmt, NoDate)
WordTok == Tok("word", NoNum, NoAmt, NoDate)
SpTok == Tok("sp", NoNum, NoAmt, NoDate)
NlTok == Tok("nl", NoNum, NoAmt, NoDate)

\* str.splitlines(): the pieces between line breaks; no empty last piece.
RECURSIVE SplitFrom(_, _, _)
SplitFrom(text, cur, acc) ==
  IF text = <<>> THEN (IF cur = <<>> THEN acc ELSE Append(acc, cur))
  ELSE IF Head(text).k = "nl" THEN SplitFrom(Tail(text), <<>>, Append(acc, cur))
  ELSE SplitFrom(Tail(text), Append(cur, Head(text)), acc)
SplitLines(text) == SplitFrom(text, <<>>, <<>>)

\* str.strip(): white space at both ends removed.
RECURSIVE LStrip(_)
LStrip(line) ==
  IF line # <<>> /\ Head(line).k = "sp" THEN LStrip(Tail(line)) ELSE line
RECURSIVE RStrip(_)
RStrip(line) ==
  IF line # <<>> /\ line[Len(line)].k = "sp"
  THEN RStrip(SubSeq(line, 1, Len(line) - 1)) ELSE line
Strip(line) == RStrip(LStrip(line))

\* What \s+ and \s* see between two fields: runs of white space are skipped.
Fields(line) == SelectSeq(line, LAMBDA t : t.k # "sp")

\* [A-Za-z0-9][A-Za-z0-9\-<en-dash><em-dash>]* followed by white space.
InvNumMatches(num) ==
  /\ num # <<>>
  /\ num[1] \in AlNum
  /\ \A i \in 2..Len(num) : num[i] \in AlNum \cup {Hyphen, EnDash, EmDash}
\* -?[\d,]+\.\d{1,2} followed by USD.
PaidAmtMatches(amt) == amt.nfrac \in 1..2
\* [0-9]{4}-[0-9]{2}-[0-9]{2}, anything after it.
DateMatches(date) ==
  /\ Len(date.groups) >= 3
  /\ date.groups[1] = 4 /\ date.groups[2] = 2 /\ date.groups[3] >= 2

\* line_re matches the three fields that start at field i of the line.
LineReAt(f, i) ==
  /\ i + 2 <= Len(f)
  /\ f[i].k = "inv" /\ InvNumMatches(f[i].num)
  /\ f[i+1].k = "paid" /\ PaidAmtMatches(f[i+1].amt)
  /\ f[i+2].k = "date" /\ DateMatches(f[i+2].date)

\* .replace(en-dash, "-").replace(em-dash, "-")
ReplaceDashes(num) ==
  [i \in 1..Len(num) |-> IF num[i] \in {EnDash, EmDash} THEN Hyphen ELSE num[i]]
\* .replace(",", "")
StripCommas(amt) == [amt EXCEPT !.comma = FALSE]
\* The text the date group captures.
CapturedDate(date) == [id |-> date.id, groups |-> <<4, 2, 2>>]

\* One pass of the loop of extract_invoice_data_from_text: the tuple of the
\* leftmost match of the line, if any.
ParseLine(raw_line) ==
  With(Fields(Strip(raw_line)), LAMBDA f :
  With({i \in 1..Len(f) : LineReAt(f, i)}, LAMBDA hits :
    IF hits = {} THEN <<>>
    ELSE With(Least(hits), LAMBDA i :
           << [num |-> ReplaceDashes(f[i].num),
               amt |-> StripCommas(f[i+1].amt),
               date |-> CapturedDate(f[i+2].date)] >>)))

\* Mutant: the pattern searched over the whole text, line breaks being white space.
extract_invoice_data_from_text_AcrossLines(text) ==
  ParseLine(SelectSeq(text, LAMBDA t : t.k # "nl"))

RECURSIVE ParseLines(_)
ParseLines(lines) ==
  IF lines = <<>> THEN <<>> ELSE ParseLine(Head(lines)) \o ParseLines(Tail(lines))
extract_invoice_data_from_text(text) ==
  With(SplitLines(text), LAMBDA lines : ParseLines(lines))


(***************************************************************************)
(* Header fields.  An optional value is [some, ...]; some = FALSE is None. *)
(***************************************************************************)
NoneAmt == [some |-> FALSE, amt |-> NoAmt]
SomeAmt(amt) == [some |-> TRUE, amt |-> amt]
NoneNum == [some |-> FALSE, num |-> NoNum]
SomeNum(num) == [some |-> TRUE, num |-> num]
NoHeader ==
  [payment_number |-> NoneNum, payment_amount |-> NoneAmt, credit_amount |-> NoneAmt]

\* \bCredit\s+Amount\b occurs in the line.
HasCreditLabel(line) == \E i \in 1..Len(line) : line[i].k = "credit"
\* ([\d,]+\.\d{2})\s*USD at this token (the search is not anchored: a sign
\* before the digits is passed over).
CreditAmtMatches(t) == t.k \in {"usdamt", "paid"} /\ t.amt.nfrac = 2
\* Payment\s*Amount:\s*([\d,]+\.\d{2}) at this token.
PayAmtMatches(t) == t.k = "payamt" /\ ~t.amt.neg /\ t.amt.nfrac >= 2
\* The two fractional digits the group captures.
CapturedAmt(amt) ==
  [neg |-> FALSE, whole |-> amt.whole,
   frac |-> amt.frac \div 10^(amt.nfrac - 2), nfrac |-> 2, comma |-> FALSE]
\* The longest prefix of num within [A-Za-z0-9\-].
RECURSIVE NumPrefix(_)
NumPrefix(num) ==
  IF num # <<>> /\ Head(num) \in AlNum \cup {Hyphen}
  THEN <<Head(num)>> \o NumPrefix(Tail(num)) ELSE <<>>
\* Payment\s*Number:\s*([A-Za-z0-9\-]+) at this token.
PayNumMatches(t) == t.k = "paynum" /\ NumPrefix(t.num) # <<>>

\* Where in a line the amount pattern matches.
CreditAmtAt(line) == {j \in 1..Len(line) : CreditAmtMatches(line[j])}

\* Mutant: the loop goes on to later label lines until an amount is found.
CreditAmountOf_AnyLabelLine(lines) ==
  With({i \in 1..(Len(lines) - 1) :
          /\ HasCreditLabel(lines[i])
          /\ CreditAmtAt(lines[i+1]) # {}}, LAMBDA found :
    IF found = {} THEN NoneAmt
    ELSE With(Least(found), LAMBDA i :
           SomeAmt(CapturedAmt(lines[i+1][Least(CreditAmtAt(lines[i+1]))].amt))))

\* The loop over the stripped non-empty lines: only the first line with the
\* label is looked at, and only the line after it is searched.
CreditAmountOf(lines) ==
  With({i \in 1..Len(lines) : HasCreditLabel(lines[i])}, LAMBDA labelled :
    IF labelled = {} THEN NoneAmt
    ELSE With(Least(labelled), LAMBDA i :
           IF i + 1 <= Len(lines) /\ CreditAmtAt(lines[i+1]) # {}
           THEN SomeAmt(CapturedAmt(lines[i+1][Least(CreditAmtAt(lines[i+1]))].amt))
           ELSE NoneAmt))

\* [line.strip() for line in text.splitlines() if line.strip()]
StrippedLines(text) ==
  With(SplitLines(text), LAMBDA raw :
    SelectSeq([i \in 1..Len(raw) |-> Strip(raw[i])], LAMBDA l : l # <<>>))

extract_header_info(text) ==
  With(StrippedLines(text), LAMBDA lines :
  With({i \in 1..Len(text) : PayAmtMatches(text[i])}, LAMBDA m_amount :
  With({i \in 1..Len(text) : PayNumMatches(text[i])}, LAMBDA m_number :
     [payment_number |->
        IF m_number # {} THEN SomeNum(NumPrefix(text[Least(m_number)].num)) ELSE NoneNum,
      payment_amount |->
        IF m_amount # {} THEN SomeAmt(CapturedAmt(text[Least(m_amount)].amt)) ELSE NoneAmt,
      credit_amount |-> CreditAmountOf(lines)])))

\* A pdf is the sequence of the texts of its pages; <<>> is a page of which
\* extract_text() gives None or "".
RECURSIVE FullText(_)
FullText(pages) ==
  IF pages = <<>> THEN <<>>
  ELSE (IF Head(pages) # <<>> THEN Head(pages) \o <<NlTok>> ELSE <<>>)
       \o FullText(Tail(pages))
HeaderText(pages) == IF pages # <<>> THEN pages[1] ELSE <<>>

\* Mutant: the header is parsed from the text of all pages.
extract_from_pdf_HeaderFromFullText(pages) ==
  With(FullText(pages), LAMBDA full_text :
    [data |-> extract_invoice_data_from_text(full_text),
     header |-> extract_header_info(full_text)])

extract_from_pdf(pages) ==
  With(FullText(pages), LAMBDA full_text :
  With(HeaderText(pages), LAMBDA header_text :
    [data |-> extract_invoice_data_from_text(full_text),
     header |-> extract_header_info(header_text)]))

(***************************************************************************)
(* process_pdf: normalisation, reconciliation, output, comparison.         *)
(***************************************************************************)
\* The value of an amount text in cents.  Every text that reaches a numeric
\* conversion has matched its pattern and lost its commas, so it parses.
CentsOf(amt) == amt.whole * 100 + (IF amt.nfrac = 1 THEN amt.frac * 10 ELSE amt.frac)
\* pandas.to_numeric / float() of an amount text.
ToNumeric(amt) == MkFloat(amt.neg, FromCents(CentsOf(amt)))
ZeroFloat == MkFloat(FALSE, ZeroMag)
\* The literal 0.01.
Tolerance == MkFloat(FALSE, FromCents(1))

PAYMENT_ADJUSTMENT == <<"PAYMENT", "_", "ADJUSTMENT">>

\* pd.DataFrame(data, ...) with the amount column made numeric.
ToFrame(data) ==
  With(data, LAMBDA d :
    [i \in 1..Len(d) |->
       [num |-> d[i].num, amount |-> ToNumeric(d[i].amt), date |-> d[i].date]])

\* df.drop_duplicates(subset=["Invoice Number"], keep="first")
RECURSIVE DropSeen(_, _)
DropSeen(df, seen) ==
  IF df = <<>> THEN <<>>
  ELSE IF Head(df).num \in seen THEN DropSeen(Tail(df), seen)
  ELSE <<Head(df)>> \o DropSeen(Tail(df), seen \cup {Head(df).num})
\* Mutant: keep="last".
RECURSIVE DropLater(_)
DropLater(df) ==
  IF df = <<>> THEN <<>>
  ELSE IF \E i \in 2..Len(df) : df[i].num = Head(df).num THEN DropLater(Tail(df))
  ELSE <<Head(df)>> \o DropLater(Tail(df))
drop_duplicates_KeepLast(df) == With(df, LAMBDA rows : DropLater(rows))

drop_duplicates(df) == With(df, LAMBDA rows : DropSeen(rows, {}))

\* df["Paid Invoice Amount"].sum(): added left to right, from 0.0.
RECURSIVE SumFrom(_, _)
SumFrom(df, acc) ==
  IF df = <<>> THEN acc ELSE SumFrom(Tail(df), FAdd(acc, Head(df).amount))
Sum(df) == With(df, LAMBDA rows : SumFrom(rows, ZeroFloat))

AdjustmentRow(diff) == [num |-> PAYMENT_ADJUSTMENT, amount |-> diff, date |-> NoDate]

\* Mutant: the total is not taken again after the adjustment row is added.
Reconcile_StaleTotal(rows, header) ==
  With(rows, LAMBDA df :
  With(Sum(df), LAMBDA total :
  With(FSub(ToNumeric(header.payment_amount.amt), total), LAMBDA diff :
    LET adjust ==
          /\ header.payment_amount.some
          /\ FGeq(FAbs(diff), Tolerance)
          /\ header.credit_amount.some
          /\ FLess(FAbs(FSub(ToNumeric(header.credit_amount.amt), total)), Tolerance)
    IN IF adjust
       THEN [df |-> Append(df, AdjustmentRow(diff)), total_amount |-> total, adjusted |-> TRUE]
       ELSE [df |-> df, total_amount |-> total, adjusted |-> FALSE])))

\* Lines 266-296: the total, and the adjustment row when the sum matches the
\* Credit Amount but not the Payment Amount.
Reconcile(rows, header) ==
  With(rows, LAMBDA df :
  With(Sum(df), LAMBDA total :
  With(FSub(ToNumeric(header.payment_amount.amt), total), LAMBDA diff :
    LET adjust ==
          /\ header.payment_amount.some
          /\ FGeq(FAbs(diff), Tolerance)
          /\ header.credit_amount.some
          /\ FLess(FAbs(FSub(ToNumeric(header.credit_amount.amt), total)), Tolerance)
    IN IF adjust
       THEN With(Append(df, AdjustmentRow(diff)), LAMBDA df2 :
              [df |-> df2, total_amount |-> Sum(df2), adjusted |-> TRUE])
       ELSE [df |-> df, total_amount |-> total, adjusted |-> FALSE])))

\* Lines 363-407: the comparison part of the success message.
CompareTotals(header, total_amount) ==
  IF ~header.payment_amount.some THEN "no_payment"
  ELSE LET near(h) == FLess(FAbs(FSub(ToNumeric(h.amt), total_amount)), Tolerance)
       IN IF header.credit_amount.some
          THEN (IF near(header.payment_amount) /\ near(header.credit_amount)
                THEN "match" ELSE "warning")
          ELSE (IF near(header.payment_amount) THEN "match" ELSE "warning")


\* The environment of a run: what the save dialog returns, and the step, if
\* any, that raises.
SaveChoices == {"cancel", "new", "overwrite"}
Faults == {"none", "extract", "to_excel_open", "to_excel_write", "load_workbook",
           "format", "save_open", "save_write"}

\* Lines 249-412 and 422-430 for one pdf and one environment: what the run
\* leaves behind.  out_file is the file at the chosen save path ("none": no
\* path was chosen), wb the workbook handle.
process_pdf(pages, save, fault) ==
  With(extract_from_pdf(pages), LAMBDA ex :
  With(Reconcile(drop_duplicates(ToFrame(ex.data)), ex.header), LAMBDA rec :
  LET prior == IF save = "new" THEN "absent" ELSE "existing"
      early(o) ==
        [outcome |-> o, comparison_msg |-> "", data |-> <<>>, header |-> NoHeader,
         df |-> <<>>, total_amount |-> ZeroFloat, adjusted |-> FALSE,
         out_file |-> "none", wb |-> "none"]
      late(o, msg, file, handle) ==
        [outcome |-> o, comparison_msg |-> msg, data |-> ex.data, header |-> ex.header,
         df |-> rec.df, total_amount |-> rec.total_amount, adjusted |-> rec.adjusted,
         out_file |-> file, wb |-> handle]
  IN IF fault = "extract" THEN early("error")
     ELSE IF ex.data = <<>>
       THEN [early("no_data") EXCEPT !.header = ex.header]
     ELSE IF save = "cancel" THEN late("save_cancelled", "", "none", "none")
     ELSE IF fault = "to_excel_open" THEN late("error", "", prior, "none")
     ELSE IF fault = "to_excel_write" THEN late("error", "", "partial", "none")
     ELSE IF fault = "load_workbook" THEN late("error", "", "data_rows", "none")
     ELSE IF fault = "format" THEN late("error", "", "data_rows", "closed")
     ELSE IF fault = "save_open" THEN late("error", "", "data_rows", "closed")
     ELSE IF fault = "save_write" THEN late("error", "", "partial", "closed")
     ELSE late("success", CompareTotals(ex.header, rec.total_amount), "complete", "closed")))

(***************************************************************************)
(* The application.                                                        *)
(***************************************************************************)
VARIABLES
  pdf_path,        \* self.pdf_path, NoPath for None
  pdf,             \* the pages of the file at pdf_path
  btn_process,     \* state of the Process button
  outcome,         \* how the last handler ended (the dialog it showed)
  comparison_msg,  \* the comparison part of the success message
  data, header,    \* what extract_from_pdf returned in the last run
  df,              \* the rows written
  total_amount,    \* the TOTAL
  adjusted,        \* whether the adjustment row was appended (line 283)
  out_file, wb
vars == <<pdf_path, pdf, btn_process, outcome, comparison_msg, data, header, df,
          total_amount, adjusted, out_file, wb>>
ui == <<pdf_path, pdf, btn_process>>
run == <<comparison_msg, data, header, df, total_amount, adjusted, out_file, wb>>

NoPath == "None"

\* __init__: nothing selected, the button disabled.
Init ==
  /\ pdf_path = NoPath /\ pdf = <<>> /\ btn_process = "disabled"
  /\ outcome = "init" /\ comparison_msg = ""
  /\ data = <<>> /\ header = NoHeader /\ df = <<>>
  /\ total_amount = ZeroFloat /\ adjusted = FALSE
  /\ out_file = "none" /\ wb = "none"

\* Mutant: the button is left as it is.
reset_ui_KeepsButton == pdf_path' = NoPath /\ pdf' = <<>> /\ UNCHANGED btn_process

reset_ui == pdf_path' = NoPath /\ pdf' = <<>> /\ btn_process' = "disabled"

\* select_pdf with the file picker cancelled.
SelectCancelled ==
  /\ outcome' = "select_cancelled"
  /\ UNCHANGED <<ui, run>>

\* select_pdf with a file chosen.
SelectPdf(files) ==
  \E f \in files :
    /\ pdf_path' = f.path /\ pdf' = f.pages /\ btn_process' = "normal"
    /\ outcome' = "selected"
    /\ UNCHANGED run

\* process_pdf, started by the Process button.
ProcessPdf(saves, faults) ==
  /\ btn_process = "normal"
  /\ IF pdf_path = NoPath
     THEN outcome' = "warning" /\ UNCHANGED <<ui, run>>
     ELSE \E save \in saves, fault \in faults :
            \E r \in {process_pdf(pdf, save, fault)} :
               /\ outcome' = r.outcome
               /\ comparison_msg' = r.comparison_msg
               /\ data' = r.data /\ header' = r.header
               /\ df' = r.df /\ total_amount' = r.total_amount
               /\ adjusted' = r.adjusted
               /\ out_file' = r.out_file /\ wb' = r.wb
               /\ IF r.outcome = "success" THEN reset_ui ELSE UNCHANGED ui

\* extract_from_pdf alone, on the selected file (line 252).
Extract ==
  /\ outcome = "selected"
  /\ outcome' = "extracted"
  /\ \E ex \in {extract_from_pdf(pdf)} : data' = ex.data /\ header' = ex.header
  /\ UNCHANGED <<ui, comparison_msg, df, total_amount, adjusted, out_file, wb>>

(***************************************************************************)
(* Inputs.                                                                 *)
(***************************************************************************)
MaxInv == 3
MaxPay == 3
MaxLines == 2
MaxHdrLines == 4
MaxPages == 2

SeqsUpTo(S, lo, hi) == UNION {[1..n -> S] : n \in lo..hi}
RECURSIVE JoinLines(_)
JoinLines(lines) ==
  IF lines = <<>> THEN <<>> ELSE Head(lines) \o <<NlTok>> \o JoinLines(Tail(lines))

InvLine(num, amt, date) == <<InvTok(num), PaidTok(amt), DateTok(date)>>
NumA == <<"A", Hyphen, "1">>
NumAen == <<"A", EnDash, "1">>
NumB == <<"B", "2">>

\* Remittance documents of one page: header block, then invoice lines.
ReconLines ==
  { InvLine(NumA, Dec2(1), IsoDate("2024-01-15")),
    InvLine(NumAen, Dec2(2), IsoDate("2024-02-01")),
    InvLine(NumB, Dec2(2), IsoDate("2024-01-15")),
    InvLine(NumB, Dec2(-1), IsoDate("2024-02-01")),
    InvLine(PAYMENT_ADJUSTMENT, Dec2(1), IsoDate("2024-01-15")) }
OptCents == {0} \cup (1..MaxPay)
HeaderBlock(pay, credit) ==
  (IF pay = 0 THEN <<>> ELSE <<PayAmtTok(Dec2(pay)), NlTok>>)
  \o (IF credit = 0 THEN <<>> ELSE <<CreditTok, NlTok, UsdTok(Dec2(credit)), NlTok>>)
ReconPdfs ==
  { << HeaderBlock(pay, credit) \o JoinLines(ls) >> :
      pay \in OptCents, credit \in OptCents, ls \in SeqsUpTo(ReconLines, 1, MaxInv) }

\* The files the picker offers in the application runs.
GuiFiles ==
  { [path |-> "adjust.pdf",
     pages |-> << HeaderBlock(3, 1) \o InvLine(NumA, Dec2(1), IsoDate("2024-01-15")) >>],
    [path |-> "mismatch.pdf",
     pages |-> << HeaderBlock(3, 0) \o InvLine(NumA, Dec2(1), IsoDate("2024-01-15")) >>],
    [path |-> "match.pdf",
     pages |-> << HeaderBlock(2, 2) \o InvLine(NumB, Dec2(2), IsoDate("2024-01-15")) >>],
    [path |-> "empty.pdf", pages |-> << <<WordTok>>, <<>> >>] }

Next == SelectCancelled \/ SelectPdf(GuiFiles) \/ ProcessPdf(SaveChoices, Faults)
Spec == Init /\ [][Next]_vars

\* One remittance document processed, the dialog confirmed and no step failing.
InitRecon ==
  /\ pdf_path = "in.pdf" /\ pdf \in ReconPdfs /\ btn_process = "normal"
  /\ outcome = "selected" /\ comparison_msg = ""
  /\ data = <<>> /\ header = NoHeader /\ df = <<>>
  /\ total_amount = ZeroFloat /\ adjusted = FALSE
  /\ out_file = "none" /\ wb = "none"
NextRecon == ProcessPdf({"new"}, {"none"})
SpecRecon == InitRecon /\ [][NextRecon]_vars

\* Texts for the line parser: lines of the three fields in every order and
\* number, and lines with the variants the pattern accepts or rejects.
FieldToks == {InvTok(NumA), PaidTok(Dec2(1)), DateTok(IsoDate("2024-01-15"))}
FieldLines ==
  { l \in SeqsUpTo(FieldToks, 0, Cardinality(FieldToks)) :
      \A i, j \in 1..Len(l) : l[i] = l[j] => i = j }
OddLines ==
  { <<InvTok(<<"B", EnDash, "2">>), SpTok, PaidTok(Amt(TRUE, 1000, 5, 1, TRUE)),
      DateTok(IsoDate("2024-02-01"))>>,
    <<SpTok, InvTok(NumB), PaidTok(Dec2(2)), DateTok(IsoDate("2024-02-01")), SpTok>>,
    <<InvTok(<<"A", "_", "1">>), PaidTok(Dec2(1)), DateTok(IsoDate("2024-01-15"))>>,
    <<InvTok(NumA), WordTok, PaidTok(Dec2(1)), DateTok(IsoDate("2024-01-15"))>>,
    <<WordTok, InvTok(NumB), PaidTok(Dec2(2)), DateTok(IsoDate("2024-02-01")),
      InvTok(NumA), PaidTok(Dec2(1)), DateTok(IsoDate("2024-01-15"))>>,
    <<InvTok(NumA), PaidTok(Amt(FALSE, 1, 234, 3, FALSE)), DateTok(IsoDate("2024-01-15"))>>,
    <<InvTok(NumA), PaidTok(Dec2(1)), DateTok([id |-> "15-01-2024", groups |-> <<2, 2, 4>>])>> }
LinePdfs ==
  { << JoinLines(ls) >> : ls \in SeqsUpTo(FieldLines \cup OddLines, 0, MaxLines) }

\* First pages for the Credit Amount rule.
HdrLines ==
  { <<CreditTok>>, <<UsdTok(Dec2(480))>>, <<UsdTok(Amt(FALSE, 99, 5, 1, FALSE))>>,
    <<WordTok>>, <<SpTok>>, <<CreditTok, UsdTok(Dec2(123))>> }
HeaderPdfs == { << JoinLines(ls) >> : ls \in SeqsUpTo(HdrLines, 0, MaxHdrLines) }

\* Documents of several pages for the Payment Amount and Payment Number rules.
PageTexts ==
  { <<>>, <<WordTok>>, <<PayAmtTok(Dec2(500))>>,
    <<PayAmtTok(Dec2(700)), NlTok, PayNumTok(<<"PN", Hyphen, "1">>)>>,
    <<PayNumTok(<<"PN", "_", "2">>)>>,
    <<PayAmtTok(Amt(FALSE, 9, 5, 1, FALSE))>>,
    <<CreditTok, NlTok, UsdTok(Dec2(480))>> }
PagePdfs == SeqsUpTo(PageTexts, 0, MaxPages)

\* extract_from_pdf applied to one selected document.
InitParse ==
  /\ pdf_path = "in.pdf" /\ pdf \in LinePdfs \cup HeaderPdfs \cup PagePdfs
  /\ btn_process = "normal"
  /\ outcome = "selected" /\ comparison_msg = ""
  /\ data = <<>> /\ header = NoHeader /\ df = <<>>
  /\ total_amount = ZeroFloat /\ adjusted = FALSE
  /\ out_file = "none" /\ wb = "none"
NextParse == Extract
SpecParse == InitParse /\ [][NextParse]_vars

(***************************************************************************)
(* Properties.  Decimal amounts are counted in whole cents.                *)
(***************************************************************************)
Abs(n) == IF n < 0 THEN -n ELSE n
SignedCents(amt) == IF amt.neg THEN -CentsOf(amt) ELSE CentsOf(amt)
\* The places in data of the first occurrence of each invoice number.
FirstOccurrences == {i \in 1..Len(data) : \A j \in 1..(i-1) : data[j].num # data[i].num}
\* The decimal sum of the first occurrences among data[1..n].
RECURSIVE CentsUpTo(_)
CentsUpTo(n) ==
  IF n = 0 THEN 0
  ELSE CentsUpTo(n - 1) + (IF n \in FirstOccurrences THEN SignedCents(data[n].amt) ELSE 0)
ExactTotal == CentsUpTo(Len(data))
PayCents == CentsOf(header.payment_amount.amt)
CreditCents == CentsOf(header.credit_amount.amt)
\* The rows before any adjustment row.
BaseRows == IF adjusted THEN SubSeq(df, 1, Len(df) - 1) ELSE df
\* |x - c/100| < 0.01 for a double x and c cents.
NearCents(x, c) == FLess(FAbs(FSub(x, MkFloat(c < 0, FromCents(Abs(c))))), Tolerance)

\* C1: the PAYMENT_ADJUSTMENT row of amount paymentAmount - total is appended
\* exactly when paymentAmount is present, |paymentAmount - total| >= 0.01,
\* creditAmount is present and |creditAmount - total| < 0.01, total being the
\* decimal sum of the deduplicated amounts; otherwise rows and total are as
\* they were.
C1_AdjustmentIff ==
  outcome = "success" =>
    /\ adjusted <=> /\ header.payment_amount.some
                    /\ Abs(PayCents - ExactTotal) >= 1
                    /\ header.credit_amount.some
                    /\ Abs(CreditCents - ExactTotal) < 1
    /\ adjusted =>
         /\ BaseRows = drop_duplicates(ToFrame(data))
         /\ df[Len(df)] = AdjustmentRow(FSub(ToNumeric(header.payment_amount.amt), Sum(BaseRows)))
    /\ ~adjusted => df = drop_duplicates(ToFrame(data)) /\ NearCents(total_amount, ExactTotal)

\* C2: after reconciliation the total is the sum of the final rows, and when
\* the adjustment was applied exactly one row is numbered PAYMENT_ADJUSTMENT,
\* it is the last row, its date is empty, and the total is within 0.01 of
\* paymentAmount.
C2_TotalAndAdjustmentRow ==
  outcome = "success" =>
    /\ total_amount = Sum(df)
    /\ adjusted =>
         /\ Cardinality({i \in 1..Len(df) : df[i].num = PAYMENT_ADJUSTMENT}) = 1
         /\ df[Len(df)].num = PAYMENT_ADJUSTMENT
         /\ df[Len(df)].date = NoDate
         /\ FLess(FAbs(FSub(total_amount, ToNumeric(header.payment_amount.amt))), Tolerance)
C2_Witness == outcome = "success" /\ adjusted /\ Len(df) >= 3

\* C3: the rows hold one record for each distinct invoice number, with the
\* amount and the date of its first occurrence, in the order of the first
\* occurrences; later occurrences add nothing to the total.
C3_DedupFirstOccurrence ==
  outcome = "success" =>
    /\ Len(BaseRows) = Cardinality(FirstOccurrences)
    /\ \A k \in 1..Len(BaseRows) :
         \E i \in FirstOccurrences :
           /\ Cardinality({j \in FirstOccurrences : j < i}) = k - 1
           /\ BaseRows[k].num = data[i].num
           /\ BaseRows[k].amount = ToNumeric(data[i].amt)
           /\ BaseRows[k].date = data[i].date
    /\ NearCents(Sum(BaseRows), ExactTotal)
C3_Witness ==
  /\ outcome = "success"
  /\ \E i, j \in 1..Len(data) :
       i < j /\ data[i].num = data[j].num /\ data[i].amt # data[j].amt
  /\ Len(BaseRows) >= 2

\* What the claim C4 calls the first match anywhere in a text.
FirstPayAmt(text) ==
  LET at == {i \in 1..Len(text) : PayAmtMatches(text[i])}
  IN IF at = {} THEN NoneAmt ELSE SomeAmt(CapturedAmt(text[Least(at)].amt))
FirstPayNum(text) ==
  LET at == {i \in 1..Len(text) : PayNumMatches(text[i])}
  IN IF at = {} THEN NoneNum ELSE SomeNum(NumPrefix(text[Least(at)].num))

C5_WarningOnlyWithoutAdjustment ==
  outcome = "success" /\ header.payment_amount.some =>
    LET off(h) == h.some /\ FGeq(FAbs(FSub(ToNumeric(h.amt), total_amount)), Tolerance)
    IN /\ comparison_msg = "warning" <=>
            (off(header.payment_amount) \/ off(header.credit_amount)) /\ ~adjusted
       /\ adjusted => comparison_msg = "match"

\* C6: a run that ends in the error dialog leaves the output file absent,
\* untouched or complete, never with the data rows only or half written, and
\* leaves no workbook open.
C6_NoPartialOutput ==
  outcome = "error" =>
    out_file \in {"none", "absent", "existing", "complete"} /\ wb # "open"

\* C7: with paymentAmount and total in whole cents, a difference of one cent
\* takes the mismatch path (adjustment or warning), and only a difference of
\* zero is treated as reconciled.
C7_OneCentIsMismatch ==
  outcome = "success" /\ header.payment_amount.some =>
    /\ Abs(PayCents - ExactTotal) = 1 => adjusted \/ comparison_msg = "warning"
    /\ ~adjusted /\ comparison_msg = "match" => PayCents = ExactTotal

\* C8: every line is matched on its own: the tuples are those of the lines
\* that hold the three fields in order, one for each such line, in line
\* order; fields spread over several lines give nothing.
LineHits(lines) ==
  {i \in 1..Len(lines) :
     \E p \in 1..Len(Fields(lines[i])) : LineReAt(Fields(lines[i]), p)}
TupleOf(t, line) ==
  \E p \in 1..Len(Fields(line)) :
    /\ LineReAt(Fields(line), p)
    /\ t.num = ReplaceDashes(Fields(line)[p].num)
    /\ t.amt = StripCommas(Fields(line)[p+1].amt)
    /\ t.date = CapturedDate(Fields(line)[p+2].date)
C8_LineByLine ==
  outcome = "extracted" =>
    LET lines == SplitLines(FullText(pdf))
        hits == LineHits(lines)
    IN /\ Len(data) = Cardinality(hits)
       /\ \A k \in 1..Len(data) :
            \E i \in hits : /\ Cardinality({j \in hits : j < i}) = k - 1
                            /\ TupleOf(data[k], lines[i])
C8_Witness ==
  /\ outcome = "extracted" /\ data = <<>>
  /\ \E i \in 1..(Len(SplitLines(FullText(pdf))) - 1) :
       LET lines == SplitLines(FullText(pdf))
       IN LineHits(<<lines[i] \o lines[i+1]>>) # {}

\* C9: only the first non-empty line with the Credit Amount label counts:
\* creditAmount is set exactly when the non-empty line right after it holds
\* an amount followed by USD, whatever later lines hold.
NonBlankLines(text) ==
  SelectSeq(SplitLines(text), LAMBDA l : \E i \in 1..Len(l) : l[i].k # "sp")
LabelLines(lines) == {i \in 1..Len(lines) : HasCreditLabel(lines[i])}
HasUsdAmount(line) == \E j \in 1..Len(line) : CreditAmtMatches(line[j])
C9_FirstCreditLineOnly ==
  outcome = "extracted" =>
    LET lines == NonBlankLines(HeaderText(pdf))
        labels == LabelLines(lines)
    IN IF labels = {} \/ Least(labels) = Len(lines) THEN ~header.credit_amount.some
       ELSE LET next == lines[Least(labels) + 1]
            IN /\ header.credit_amount.some <=> HasUsdAmount(next)
               /\ header.credit_amount.some =>
                    header.credit_amount.amt =
                      CapturedAmt(next[Least({j \in 1..Len(next) : CreditAmtMatches(next[j])})].amt)
C9_Witness ==
  /\ outcome = "extracted" /\ ~header.credit_amount.some
  /\ LET lines == NonBlankLines(HeaderText(pdf))
     IN \E i \in LabelLines(lines) :
          i > Least(LabelLines(lines)) /\ i < Len(lines) /\ HasUsdAmount(lines[i+1])

\* C10: the Process button is enabled exactly when a pdf is selected; a
\* successful run clears the selection and disables the button; a run
\* without data, a cancelled dialog and a failed run leave both alone.
C10_ButtonTracksSelection ==
  /\ [](btn_process = "normal" <=> pdf_path # NoPath)
  /\ [][ /\ outcome' = "success" => pdf_path' = NoPath /\ btn_process' = "disabled"
         /\ outcome' \in {"no_data", "save_cancelled", "select_cancelled", "error"} =>
              UNCHANGED <<pdf_path, btn_process>> ]_vars
C10_Witness == outcome = "success" /\ pdf_path = NoPath /\ btn_process = "disabled"
====
